---- MODULE Spec2Model ----
(***************************************************************************)
(* Home energy dashboard: the bill extractors (NationalGridParser,         *)
(* SunrunParser, EversourceParser), the monthly aggregation of             *)
(* EnergyAnalyzer and the batch run of analyzeBills.js (main).             *)
(*                                                                         *)
(* Units.  Bill energy is counted in whole kWh and the daily production    *)
(* series in tenths of a kWh.  Costs and the gas equivalent are doubles,   *)
(* added and multiplied as JavaScript does; a credit balance, which is     *)
(* only copied and compared with 0, is carried in cents.  A date string    *)
(* "YYYY-MM-DD" is the record [y, m, d]; JavaScript's null date is         *)
(* NullDate.  The bucket key "YYYY-MM" is the pair <<y, m>>.               *)
(***************************************************************************)
EXTENDS Integers, Sequences, FiniteSets, TLC

VARIABLES
    monthlyData,     \* EnergyAnalyzer.monthlyData: bucket key -> bucket
    dailySolarData,  \* EnergyAnalyzer.dailySolarData: [isSet, data: date -> tenths of kWh]
    chartData,       \* the summaries returned by the last getMonthlyAnalysis call
    calls,           \* history: the records passed to addBill and the buckets each one changed
    input,           \* the document handed to an extractor: [type, doc]
    result,          \* what the extractor call produced: a record, null, or an exception
    pc,              \* main: the step the run is at
    files,           \* main: ngFiles, sunrunFiles, gasFiles as listed, by type
    batch,           \* main: which processFiles call is running (index into TypeOrder)
    cursor,          \* main: index of the next file of the batch, or of the next record fed
    billCache,       \* billCache.cache: file id -> record
    sunrunCache,     \* sunrunCache.cache: date -> daily production
    billData,        \* main: the arrays ngData, sunrunData, gasData
    errorLog,        \* ids of the files for which an error was printed
    fetched,         \* ids of the files for which drive.getFile was called
    pushedIds,       \* per target array, the file.id behind each pushed record
    removedCount,    \* main: the number of stale entries the cleanup deleted
    timeZone         \* the time zone of the process (TZ), fixed for a run

analyzerVars == <<monthlyData, dailySolarData, chartData, calls>>

extractorVars == <<input, result>>

mainVars == <<pc, files, batch, cursor, billCache, sunrunCache, billData, errorLog, fetched,
              pushedIds, removedCount>>

vars == <<monthlyData, dailySolarData, chartData, calls, input, result,
          pc, files, batch, cursor, billCache, sunrunCache, billData, errorLog, fetched,
          pushedIds, removedCount, timeZone>>

----------------------------------------------------------------------------
(* Bounds of the model *)

MaxBills == 3

MaxFiles == 3

----------------------------------------------------------------------------
(* Calendar dates *)

NullDate == [y |-> 0, m |-> 0, d |-> 0]

Date(y, m, d) == [y |-> y, m |-> m, d |-> d]

IsLeap(y) == (y % 4 = 0 /\ y % 100 # 0) \/ y % 400 = 0

DaysIn(y, m) ==
    IF m = 2 THEN (IF IsLeap(y) THEN 29 ELSE 28)
    ELSE IF m \in {4, 6, 9, 11} THEN 30 ELSE 31

PrevDay(dt) ==
    IF dt.d > 1 THEN Date(dt.y, dt.m, dt.d - 1)
    ELSE IF dt.m > 1 THEN Date(dt.y, dt.m - 1, DaysIn(dt.y, dt.m - 1))
    ELSE Date(dt.y - 1, 12, 31)

\* The order of two "YYYY-MM-DD" strings (a <= b on strings of equal layout).
DateLE(a, b) ==
    \/ a.y < b.y
    \/ a.y = b.y /\ a.m < b.m
    \/ a.y = b.y /\ a.m = b.m /\ a.d <= b.d

Max(a, b) == IF a >= b THEN a ELSE b

----------------------------------------------------------------------------
(* JavaScript numbers that are whole (energy in kWh, therms): integers, and *)
(* NaN, which parseFloat returns for a text that does not start a number.   *)
(* NaN is held as a value outside the range of every quantity of the model. *)

NaN == 0 - 2 ^ 30

\* a + b, a - b: NaN when an operand is NaN.
Plus(a, b) == IF a = NaN \/ b = NaN THEN NaN ELSE a + b

Minus(a, b) == IF a = NaN \/ b = NaN THEN NaN ELSE a - b

\* a > b, a < b: false when an operand is NaN.
Gt(a, b) == a # NaN /\ b # NaN /\ a > b

Lt(a, b) == a # NaN /\ b # NaN /\ a < b

\* x || 0: NaN is falsy.
OrZero(x) == IF x = NaN THEN 0 ELSE x

\* Math.max(a, b), Math.abs(n): NaN when an argument is NaN.
MathMax(a, b) == IF a = NaN \/ b = NaN THEN NaN ELSE Max(a, b)

Abs(n) == IF n = NaN THEN NaN ELSE IF n < 0 THEN 0 - n ELSE n

----------------------------------------------------------------------------
(* JavaScript numbers with a fraction (money, the gas equivalent): IEEE-754 *)
(* binary64, round to nearest, ties to even.  A double is held exactly as   *)
(* the integer h * 2^40 + m * 2^20 + l counting units of 2^-48, in three    *)
(* limbs.  Every double of the model is 0 or lies in [16, 4096): such a     *)
(* value has at most 53 significant bits on this grid, so the limbs hold    *)
(* the double and nothing else.                                             *)

LimbBits == 20

Limb == 2 ^ LimbBits

\* The unit of the grid is 2^-UnitBits.
UnitBits == 48

\* The precision of binary64: 53 significant bits.
Precision == 53

RECURSIVE BitLen(_)
BitLen(n) == IF n = 0 THEN 0 ELSE 1 + BitLen(n \div 2)

\* The limbs of a sum or product of limbs, the carries propagated.
Norm(h, m, l) ==
    LET m2 == m + (l \div Limb)
    IN  [h |-> h + (m2 \div Limb), m |-> m2 % Limb, l |-> l % Limb]

BigBitLen(N) ==
    IF N.h > 0 THEN 2 * LimbBits + BitLen(N.h)
    ELSE IF N.m > 0 THEN LimbBits + BitLen(N.m)
    ELSE BitLen(N.l)

\* The double nearest to N + remNum / remDen units (0 <= remNum < remDen), ties
\* to even: the bits below the 53rd are dropped and the last kept bit is
\* incremented when they are more than half of it, or half with that bit odd.
RoundNearestEven(N, remNum, remDen) ==
    LET s == Max(0, BigBitLen(N) - Precision)
        ulp == 2 ^ s
        r == N.l % ulp
        kept == N.l - r
        odd == IF s < LimbBits THEN (N.l \div ulp) % 2 = 1 ELSE N.m % 2 = 1
        \* twice the dropped part against one ulp, the remainder breaking the tie
        up == IF s = 0
              THEN 2 * remNum > remDen \/ (2 * remNum = remDen /\ odd)
              ELSE \/ 2 * r > ulp
                   \/ 2 * r = ulp /\ (remNum > 0 \/ odd)
    IN  Norm(N.h, N.m, IF up THEN kept + ulp ELSE kept)

Zero == [h |-> 0, m |-> 0, l |-> 0]

FNaN == [h |-> NaN, m |-> 0, l |-> 0]

\* The double of a whole number n >= 0, or of NaN.
IntToDouble(n) ==
    IF n = NaN THEN FNaN
    ELSE [h |-> n * 2 ^ (UnitBits - 2 * LimbBits), m |-> 0, l |-> 0]

\* parseFloat of a decimal text, and a decimal literal of the source: the
\* double nearest to n / den (long division of n * 2^48 by den, then rounding).
DecimalToDouble(n, den) ==
    LET H == n * 2 ^ (UnitBits - 2 * LimbBits)
        t1 == (H % den) * Limb
        t2 == (t1 % den) * Limb
    IN  RoundNearestEven([h |-> H \div den, m |-> t1 \div den, l |-> t2 \div den],
                         t2 % den, den)

\* a + b on doubles.
FAdd(a, b) ==
    IF a = FNaN \/ b = FNaN THEN FNaN
    ELSE RoundNearestEven(Norm(a.h + b.h, a.m + b.m, a.l + b.l), 0, 1)

\* n * a on doubles, n a whole number >= 0 or NaN.
FMul(n, a) ==
    IF n = NaN \/ a = FNaN THEN FNaN
    ELSE RoundNearestEven(Norm(n * a.h, n * a.m, n * a.l), 0, 1)

\* Money written in cents: parseFloat("120.50") is Dollars(12050).
Dollars(cents) == DecimalToDouble(cents, 100)

----------------------------------------------------------------------------
(* EnergyAnalyzer.addBill *)

ShiftThreshold == 20

\* A plausible slip: the threshold of the stale comment ("first 10 days").
BucketKeyFirstTenDays(date) ==
    IF date.d <= 10
    THEN (IF date.m - 1 = 0 THEN <<date.y - 1, 12>> ELSE <<date.y, date.m - 1>>)
    ELSE <<date.y, date.m>>

\* A plausible slip: the January wrap forgotten.
BucketKeyNoWrap(date) ==
    IF date.d <= ShiftThreshold THEN <<date.y, date.m - 1>> ELSE <<date.y, date.m>>

\* The key computed from data.date: the month before when the day is <= 20.
BucketKey(date) ==
    IF date.d <= ShiftThreshold
    THEN (IF date.m - 1 = 0 THEN <<date.y - 1, 12>> ELSE <<date.y, date.m - 1>>)
    ELSE <<date.y, date.m>>

\* The bucket created on the first record of a month.
EmptyBucket(key) ==
    [month |-> key,
     ngStartDate |-> NullDate, ngEndDate |-> NullDate,
     ngCost |-> Zero, ngUsage |-> 0, ngExport |-> 0, ngCredit |-> 0, ngProd |-> 0,
     sunrunCost |-> Zero, sunrunProd |-> 0, gasCost |-> Zero, gasTherms |-> 0]

CreditSummed(old, credit) == old + credit

\* if (data.credit > 0) bucket.ngCredit = data.credit
NewCredit(old, credit) == IF credit > 0 THEN credit ELSE old

BoundAlwaysOverwritten(old, incoming) == incoming

\* if (data.startDate) bucket.ngStartDate = data.startDate  (the same for endDate)
NewBound(old, incoming) == IF incoming # NullDate THEN incoming ELSE old

ExportNotAccumulated(old, exported) == exported

\* bucket.ngExport += (data.exported || 0)
NewExport(old, exported) == Plus(old, OrZero(exported))

\* A plausible slip: "=" written for "+=", so that a second record replaces
\* the first one's amounts.
AccumulateAssigns(bucket, data) ==
    IF data.type = "NationalGrid" THEN
        [bucket EXCEPT
            !.ngCost = data.cost, !.ngUsage = data.usage, !.ngExport = data.exported,
            !.ngProd = data.production,
            !.ngCredit = NewCredit(@, data.credit),
            !.ngStartDate = NewBound(@, data.startDate),
            !.ngEndDate = NewBound(@, data.endDate)]
    ELSE IF data.type = "Sunrun" THEN
        [bucket EXCEPT !.sunrunCost = data.cost, !.sunrunProd = data.production]
    ELSE IF data.type = "Eversource" THEN
        [bucket EXCEPT !.gasCost = data.cost, !.gasTherms = data.therms]
    ELSE bucket

\* The three branches on data.type.
Accumulate(bucket, data) ==
    IF data.type = "NationalGrid" THEN
        [bucket EXCEPT
            !.ngCost = FAdd(@, data.cost),
            !.ngUsage = Plus(@, data.usage),
            !.ngExport = NewExport(@, data.exported),
            !.ngProd = Plus(@, OrZero(data.production)),
            !.ngCredit = NewCredit(@, data.credit),
            !.ngStartDate = NewBound(@, data.startDate),
            !.ngEndDate = NewBound(@, data.endDate)]
    ELSE IF data.type = "Sunrun" THEN
        [bucket EXCEPT
            !.sunrunCost = FAdd(@, data.cost),
            !.sunrunProd = Plus(@, data.production)]
    ELSE IF data.type = "Eversource" THEN
        [bucket EXCEPT
            !.gasCost = FAdd(@, data.cost),
            !.gasTherms = Plus(@, data.therms)]
    ELSE bucket

\* A plausible slip: the test 'if (!this.monthlyData[key])' left out, the bucket
\* made anew at every call.
addBillFreshBucket(md, data) ==
    LET key == BucketKey(data.date)
    IN  [k \in (DOMAIN md) \cup {key} |->
            IF k = key THEN Accumulate(EmptyBucket(key), data) ELSE md[k]]

\* monthlyData after addBill(data), for a record with a date.
addBill(md, data) ==
    LET key == BucketKey(data.date)
        bucket == IF key \in DOMAIN md THEN md[key] ELSE EmptyBucket(key)
    IN  [k \in (DOMAIN md) \cup {key} |->
            IF k = key THEN Accumulate(bucket, data) ELSE md[k]]

----------------------------------------------------------------------------
(* EnergyAnalyzer.getMonthlyAnalysis *)

\* The literal 29.3, in tenths, and the double it denotes.
ThermToKwhTenths == 293

\* A plausible slip: the factor written with one more digit (29.31).
ThermToKwhTwoDecimals == DecimalToDouble(2931, 100)

ThermToKwh == DecimalToDouble(ThermToKwhTenths, 10)

RECURSIVE SumOver(_, _)
SumOver(S, f) ==
    IF S = {} THEN 0
    ELSE LET x == CHOOSE x \in S : TRUE IN f[x] + SumOver(S \ {x}, f)

\* Math.round of a quantity given in tenths: the nearest whole unit, halves up.
RoundTenths(t) == (t + 5) \div 10

\* The time zones a run is modelled in: one without daylight saving time, and
\* the one of the utilities whose bills are read.
TimeZones == {"UTC", "America/New_York"}

\* The Sundays on which the clocks of a zone go back an hour (at 02:00 local
\* time), in the years of the modelled data.
FallBackSundays(zone) ==
    IF zone = "America/New_York" THEN {Date(2024, 11, 3), Date(2025, 11, 2)} ELSE {}

\* new Date(iso); setDate(getDate() - 1); toISOString().split('T')[0].
\* new Date(iso) is midnight UTC of dt, which in a zone west of UTC is the
\* evening of the day before in local time; setDate keeps that wall-clock time
\* a local day earlier; toISOString converts back to UTC.  With the same UTC
\* offset at both instants the result is the day before dt.  When the clocks
\* went back between the two (dt is the Monday after), the earlier instant is
\* an hour further from UTC midnight, 23:00 UTC two days before dt.
ShiftBack(dt) ==
    IF PrevDay(dt) \in FallBackSundays(timeZone) THEN PrevDay(PrevDay(dt)) ELSE PrevDay(dt)

\* A plausible slip: only the year of the key compared.
InYear(dt, key) == dt.y = key[1]

\* date.startsWith(m) for the key m = "YYYY-MM".
InMonth(dt, key) == dt.y = key[1] /\ dt.m = key[2]

\* billingPeriodProd of bucket d with key m.
BillingPeriodProd(d, m, daily) ==
    IF ~daily.isSet THEN 0
    ELSE IF d.ngStartDate # NullDate /\ d.ngEndDate # NullDate
    THEN LET shiftedStart == ShiftBack(d.ngStartDate)
             shiftedEnd == ShiftBack(d.ngEndDate)
         IN  RoundTenths(SumOver({dt \in DOMAIN daily.data :
                                    DateLE(shiftedStart, dt) /\ DateLE(dt, shiftedEnd)},
                                 daily.data))
    ELSE RoundTenths(SumOver({dt \in DOMAIN daily.data : InMonth(dt, m)}, daily.data))

\* A plausible slip: the priority of the stale comment (meter first).
TotalProductionMeterFirst(billingPeriodProd, ngProd, sunrunProd) ==
    IF Gt(ngProd, 0) THEN ngProd
    ELSE IF Gt(billingPeriodProd, 0) THEN billingPeriodProd
    ELSE sunrunProd

TotalProduction(billingPeriodProd, ngProd, sunrunProd) ==
    IF Gt(billingPeriodProd, 0) THEN billingPeriodProd
    ELSE IF Gt(ngProd, 0) THEN ngProd
    ELSE sunrunProd

SelfUseUnclamped(totalProduction, ngExport) == Minus(totalProduction, ngExport)

SelfUse(totalProduction, ngExport) == MathMax(0, Minus(totalProduction, ngExport))

\* A plausible slip: the division not guarded.
EffectiveRateUnguarded(totalCost, trueConsumption) ==
    [num |-> totalCost, den |-> trueConsumption]

\* trueConsumption > 0 ? (totalCost / trueConsumption) : 0.  The quotient is
\* held as its two operands; 0 is 0 / 1.
EffectiveRate(totalCost, trueConsumption) ==
    IF Gt(trueConsumption, 0)
    THEN [num |-> totalCost, den |-> trueConsumption]
    ELSE [num |-> Zero, den |-> 1]

\* The summary of bucket d with key m.
Summary(d, m, daily) ==
    LET billingPeriodProd == BillingPeriodProd(d, m, daily)
        totalProduction == TotalProduction(billingPeriodProd, d.ngProd, d.sunrunProd)
        selfUse == SelfUse(totalProduction, d.ngExport)
        trueConsumption == Plus(selfUse, d.ngUsage)
        totalCost == FAdd(d.ngCost, d.sunrunCost)
        gasKwh == FMul(d.gasTherms, ThermToKwh)
    IN  [month |-> d.month,
         ngStartDate |-> d.ngStartDate, ngEndDate |-> d.ngEndDate,
         ngCost |-> d.ngCost, ngUsage |-> d.ngUsage, ngExport |-> d.ngExport,
         ngCredit |-> d.ngCredit, ngProd |-> d.ngProd,
         sunrunCost |-> d.sunrunCost, sunrunProd |-> d.sunrunProd,
         gasCost |-> d.gasCost, gasTherms |-> d.gasTherms,
         totalProduction |-> totalProduction,
         selfUse |-> selfUse,
         trueConsumption |-> trueConsumption,
         netPosition |-> Minus(totalProduction, trueConsumption),
         totalCost |-> totalCost,
         effectiveRate |-> EffectiveRate(totalCost, trueConsumption),
         gasKwh |-> gasKwh,
         totalEnergyCost |-> FAdd(totalCost, d.gasCost),
         totalEnergyKwh |-> FAdd(IntToDouble(trueConsumption), gasKwh),
         billingPeriodProd |-> billingPeriodProd]

\* The decimal digits of n >= 0 as character codes ("0" is 48).
RECURSIVE DigitsOf(_)
DigitsOf(n) ==
    IF n < 10 THEN <<48 + n>> ELSE Append(DigitsOf(n \div 10), 48 + (n % 10))

\* A plausible slip: the month not padded ("2024-9").
KeyStringUnpadded(k) == DigitsOf(k[1]) \o <<45>> \o DigitsOf(k[2])

\* The text of a key, `${y}-${String(m).padStart(2, '0')}`, as character codes
\* ("-" is 45).
KeyString(k) ==
    DigitsOf(k[1]) \o <<45>> \o (IF k[2] < 10 THEN <<48>> ELSE <<>>) \o DigitsOf(k[2])

\* s < t on strings: at the first position where they differ the code of s is
\* the smaller, or s is a proper prefix of t.
RECURSIVE StringLess(_, _)
StringLess(s, t) ==
    IF t = <<>> THEN FALSE
    ELSE IF s = <<>> THEN TRUE
    ELSE IF Head(s) # Head(t) THEN Head(s) < Head(t)
    ELSE StringLess(Tail(s), Tail(t))

\* The order of two keys under Array.prototype.sort(): that of their texts.
KeyLess(a, b) == StringLess(KeyString(a), KeyString(b))

RECURSIVE SortKeys(_)
SortKeys(S) ==
    IF S = {} THEN <<>>
    ELSE LET least == CHOOSE k \in S : \A o \in S \ {k} : KeyLess(k, o)
         IN  <<least>> \o SortKeys(S \ {least})

getMonthlyAnalysis(md, daily) ==
    LET sortedMonths == SortKeys(DOMAIN md)
    IN  [i \in 1..Len(sortedMonths) |-> Summary(md[sortedMonths[i]], sortedMonths[i], daily)]

----------------------------------------------------------------------------
(* The records handed to the analyzer                                      *)

Types == {"NationalGrid", "Sunrun", "Eversource"}

\* A plausible slip: the import not cleared when the net usage is negative.
NationalGridRecordUnsplit(dateStr, startDateStr, endDateStr, netUsage, genUsage, cost, credit) ==
    [type |-> "NationalGrid",
     date |-> dateStr, startDate |-> startDateStr, endDate |-> endDateStr,
     usage |-> Abs(netUsage),
     exported |-> IF Lt(netUsage, 0) THEN Abs(netUsage) ELSE 0,
     production |-> genUsage,
     cost |-> cost, credit |-> credit, therms |-> 0]

\* The record NationalGridParser.parse returns: the signed net usage is split
\* into import (usage) and export, the meter production is kept apart.
NationalGridRecord(dateStr, startDateStr, endDateStr, netUsage, genUsage, cost, credit) ==
    [type |-> "NationalGrid",
     date |-> dateStr, startDate |-> startDateStr, endDate |-> endDateStr,
     usage |-> IF Gt(netUsage, 0) THEN netUsage ELSE 0,
     exported |-> IF Lt(netUsage, 0) THEN Abs(netUsage) ELSE 0,
     production |-> genUsage,
     cost |-> cost, credit |-> credit, therms |-> 0]

\* The record SunrunParser.parse returns.
SunrunRecord(dateStr, production, cost) ==
    [type |-> "Sunrun",
     date |-> dateStr, startDate |-> NullDate, endDate |-> NullDate,
     usage |-> 0, exported |-> 0, production |-> production,
     cost |-> cost, credit |-> 0, therms |-> 0]

\* The record EversourceParser.parse returns.
EversourceRecord(dateStr, therms, cost) ==
    [type |-> "Eversource",
     date |-> dateStr, startDate |-> NullDate, endDate |-> NullDate,
     usage |-> 0, exported |-> 0, production |-> 0,
     cost |-> cost, credit |-> 0, therms |-> therms]

----------------------------------------------------------------------------
(* The extractors.  A document is described by what each pattern of the     *)
(* extractor finds in its text: whether it matches and the value captured.  *)

\* A captured amount "d,ddd.dd" is held as its value in cents.  A captured run
\* of digits, commas (and minus signs) is held as what parseFloat makes of it
\* once the commas are removed: a whole number, or NaN when nothing or a lone
\* sign is left (the text captured was "," or "-").
NoMatch == [matched |-> FALSE, value |-> 0]

Match(v) == [matched |-> TRUE, value |-> v]

\* A captured "Mon DD, YYYY": valid is FALSE for a text the pattern accepts
\* and Date cannot parse (new Date(text) is then an Invalid Date).
NoDateText == [matched |-> FALSE, valid |-> FALSE, date |-> NullDate]

DateText(dt) == [matched |-> TRUE, valid |-> TRUE, date |-> dt]

UnparseableDateText == [matched |-> TRUE, valid |-> FALSE, date |-> NullDate]

\* The outcome of an extractor's try block, and of the call.
NoRecord == NationalGridRecord(NullDate, NullDate, NullDate, 0, 0, Zero, 0)

Returned(rec) == [kind |-> "record", rec |-> rec]

ReturnedNull == [kind |-> "null", rec |-> NoRecord]

Raised == [kind |-> "exception", rec |-> NoRecord]

NotCalled == [kind |-> "none", rec |-> NoRecord]

\* new Date("Mon DD, YYYY").toISOString().split('T')[0]: local midnight read in
\* UTC, the day before when the process's time zone is east of UTC.
LocalMidnightToISODate(dt, eastOfUTC) == IF eastOfUTC THEN PrevDay(dt) ELSE dt

\* A plausible slip: the handler logs and throws again.
CatchRethrows(outcome) ==
    IF outcome.kind = "exception" THEN [kind |-> "throw", rec |-> NoRecord] ELSE outcome

\* catch (e) { console.error(...); return null; }
CatchReturnsNull(outcome) ==
    IF outcome.kind = "exception" THEN ReturnedNull ELSE outcome

\* parseFloat(match[1].replace(/,/g, '')) of the first pattern that matches, else 0.
FirstMatch(first, second) ==
    IF first.matched THEN Dollars(first.value)
    ELSE IF second.matched THEN Dollars(second.value)
    ELSE Zero

\* A plausible slip: the fallback leaves the end of the period unset.
FallbackEndDateUnset(dateStr) == NullDate

\* The fallback pattern (the "to" date alone): endDateStr = dateStr.
FallbackEndDate(dateStr) == dateStr

\* The try block of NationalGridParser.parse.
NationalGridTry(doc) ==
    IF ~doc.readable THEN Raised
    ELSE IF doc.period = "full" /\ ~(doc.startText.valid /\ doc.endText.valid) THEN Raised
    ELSE IF doc.period = "endOnly" /\ ~doc.endText.valid THEN Raised
    ELSE
        LET startDateStr == IF doc.period = "full"
                            THEN LocalMidnightToISODate(doc.startText.date, doc.eastOfUTC)
                            ELSE NullDate
            toDate == LocalMidnightToISODate(doc.endText.date, doc.eastOfUTC)
            dateStr == IF doc.period \in {"full", "endOnly"} THEN toDate ELSE NullDate
            endDateStr == IF doc.period = "full" THEN toDate
                          ELSE IF doc.period = "endOnly" THEN FallbackEndDate(dateStr)
                          ELSE NullDate
            cost == FirstMatch(doc.currentCharges, doc.totalDue)
            netUsage == IF doc.netUsage.matched THEN doc.netUsage.value ELSE 0
            genUsage == IF doc.genUsage.matched THEN Abs(doc.genUsage.value) ELSE 0
            credit == IF doc.credit.matched THEN doc.credit.value ELSE 0
        IN  Returned(NationalGridRecord(dateStr, startDateStr, endDateStr,
                                        netUsage, genUsage, cost, credit))

NationalGridParser_parse(doc) == CatchReturnsNull(NationalGridTry(doc))

\* monthMap of SunrunParser.parse; any other three letters give undefined.
MonthNames == <<"Jan", "Feb", "Mar", "Apr", "May", "Jun",
                "Jul", "Aug", "Sep", "Oct", "Nov", "Dec">>

UndefinedMonth == 0 - 1

MonthMap(monthStr) ==
    IF \E i \in 1..12 : MonthNames[i] = monthStr
    THEN CHOOSE i \in 1..12 : MonthNames[i] = monthStr
    ELSE UndefinedMonth

\* The try block of SunrunParser.parse.
SunrunTry(doc) ==
    IF ~doc.readable THEN Raised
    ELSE
        LET dueYear == IF doc.dueDate.matched THEN doc.dueDate.date.y ELSE doc.clockYear
            dueMonth == IF doc.dueDate.matched THEN doc.dueDate.date.m ELSE 1
            year == IF doc.billingEnd.monthStr = "Dec" /\ dueMonth = 1
                    THEN dueYear - 1 ELSE dueYear
            dateStr ==
                IF doc.billingEnd.matched
                THEN Date(year, MonthMap(doc.billingEnd.monthStr), doc.billingEnd.day)
                ELSE IF doc.dueDate.matched
                THEN (IF doc.billDate.matched THEN doc.billDate.date ELSE doc.dueDate.date)
                ELSE NullDate
            cost == FirstMatch(doc.totalDue, doc.monthlyCharge)
            production == IF doc.produced.matched THEN doc.produced.value ELSE 0
        IN  IF dateStr = NullDate THEN ReturnedNull
            ELSE Returned(SunrunRecord(dateStr, production, cost))

SunrunParser_parse(doc) == CatchReturnsNull(SunrunTry(doc))

\* The year of "MM/DD/YY" or "MM/DD/YYYY": '20' is put before two digits.
StatementYear(digits, value) == IF digits = 2 THEN 2000 + value ELSE value

\* The try block of EversourceParser.parse.
EversourceTry(doc) ==
    IF ~doc.readable THEN Raised
    ELSE
        LET dateStr == IF doc.statementDate.matched
                       THEN Date(StatementYear(doc.statementDate.yearDigits,
                                               doc.statementDate.year),
                                 doc.statementDate.month, doc.statementDate.day)
                       ELSE NullDate
            cost == IF doc.totalDue.matched THEN Dollars(doc.totalDue.value) ELSE Zero
            therms == IF doc.therms.matched THEN doc.therms.value ELSE 0
        IN  IF dateStr = NullDate THEN ReturnedNull
            ELSE Returned(EversourceRecord(dateStr, therms, cost))

EversourceParser_parse(doc) == CatchReturnsNull(EversourceTry(doc))

\* BillParser.parse(type, buffer): the extractor of the type.
BillParser_parse(type, doc) ==
    IF type = "NationalGrid" THEN NationalGridParser_parse(doc)
    ELSE IF type = "Sunrun" THEN SunrunParser_parse(doc)
    ELSE EversourceParser_parse(doc)

\* The documents the extractors are tried on.  period tells which of the two
\* billing-period patterns matches; startText and endText are what it captures
\* (startText is read for "full" only, neither for "none").
ElectricDocs ==
    [readable : BOOLEAN, eastOfUTC : BOOLEAN,
     period : {"full", "endOnly", "none"},
     startText : {DateText(Date(2024, 11, 21)), UnparseableDateText},
     endText : {DateText(Date(2024, 12, 20)), DateText(Date(2025, 1, 1)), UnparseableDateText},
     currentCharges : {NoMatch, Match(12050)},
     totalDue : {NoMatch, Match(8895)},
     netUsage : {NoMatch, Match(0 - 964), Match(50), Match(NaN)},
     genUsage : {NoMatch, Match(0 - 1439), Match(NaN)},
     credit : {NoMatch, Match(57749)}]

NoBillingEnd == [matched |-> FALSE, monthStr |-> "", day |-> 0]

BillingEnd(monthStr, day) == [matched |-> TRUE, monthStr |-> monthStr, day |-> day]

SolarDocs ==
    [readable : BOOLEAN, clockYear : {2025, 2026},
     dueDate : {NoDateText, DateText(Date(2025, 12, 14)), DateText(Date(2026, 1, 14))},
     billingEnd : {NoBillingEnd, BillingEnd("Nov", 14), BillingEnd("Dec", 14),
                   BillingEnd("NOV", 14)},
     billDate : {NoDateText, DateText(Date(2025, 11, 15))},
     totalDue : {NoMatch, Match(15328)},
     monthlyCharge : {NoMatch, Match(14900)},
     produced : {NoMatch, Match(479), Match(NaN)}]

NoStatementDate == [matched |-> FALSE, month |-> 0, day |-> 0, yearDigits |-> 0, year |-> 0]

StatementDate(month, day, yearDigits, year) ==
    [matched |-> TRUE, month |-> month, day |-> day, yearDigits |-> yearDigits, year |-> year]

GasDocs ==
    [readable : BOOLEAN,
     statementDate : {NoStatementDate, StatementDate(12, 2, 2, 24),
                      StatementDate(1, 21, 4, 2025)},
     totalDue : {NoMatch, Match(3582)},
     therms : {NoMatch, Match(11), Match(NaN)}]

Inputs ==
    [type : {"NationalGrid"}, doc : ElectricDocs]
        \cup [type : {"Sunrun"}, doc : SolarDocs]
        \cup [type : {"Eversource"}, doc : GasDocs]

NoInput == [type |-> "none"]

----------------------------------------------------------------------------
(* One extractor call on any document                                       *)

\* The variables of main while an extractor or the analyzer is exercised alone.
MainIdle ==
    /\ pc = "idle"
    /\ files = [t \in {} |-> <<>>]
    /\ batch = 0
    /\ cursor = 0
    /\ billCache = [id \in {} |-> NoRecord]
    /\ sunrunCache = [dt \in {} |-> 0]
    /\ billData = [t \in {} |-> <<>>]
    /\ errorLog = {}
    /\ fetched = {}
    /\ pushedIds = [t \in {} |-> <<>>]
    /\ removedCount = 0


InitExtractor ==
    /\ input \in Inputs
    /\ result = NotCalled
    /\ monthlyData = [k \in {} |-> EmptyBucket(k)]
    /\ dailySolarData = [isSet |-> FALSE, data |-> [dt \in {} |-> 0]]
    /\ chartData = <<>>
    /\ calls = <<>>
    /\ timeZone = "UTC"
    /\ MainIdle

\* result = await new NationalGridParser().parse(buffer)
ParseNationalGrid ==
    /\ pc = "idle"
    /\ result = NotCalled
    /\ input.type = "NationalGrid"
    /\ result' = NationalGridParser_parse(input.doc)
    /\ UNCHANGED <<timeZone, input, analyzerVars, mainVars>>

\* result = await new SunrunParser().parse(buffer)
ParseSunrun ==
    /\ pc = "idle"
    /\ result = NotCalled
    /\ input.type = "Sunrun"
    /\ result' = SunrunParser_parse(input.doc)
    /\ UNCHANGED <<timeZone, input, analyzerVars, mainVars>>

\* result = await new EversourceParser().parse(buffer)
ParseEversource ==
    /\ pc = "idle"
    /\ result = NotCalled
    /\ input.type = "Eversource"
    /\ result' = EversourceParser_parse(input.doc)
    /\ UNCHANGED <<timeZone, input, analyzerVars, mainVars>>

NextExtractor ==
    \/ ParseNationalGrid
    \/ ParseSunrun
    \/ ParseEversource

SpecExtractor == InitExtractor /\ [][NextExtractor]_vars

\* Bill dates on both sides of the day-20 threshold, and the first of January.
BillDates == {Date(2024, 12, 20), Date(2024, 12, 21), Date(2025, 1, 1)}

\* The start of the billing period that ends on a bill date: a month and a day earlier.
PeriodStartOf(end) ==
    IF end.m = 1 THEN Date(end.y - 1, 12, end.d + 1) ELSE Date(end.y, end.m - 1, end.d + 1)

\* Electric bills: <<net usage, meter production, credit, form of the billing
\* period, cost in cents>>.
\* "full": both bounds extracted; "endOnly": the fallback pattern (end date alone);
\* "none": a record of the cache written before the period bounds were extracted.
ElectricProfiles ==
    {<<0 - 200, 100, 1000, "none", 12050>>,
     <<0 - 100, 100, 0, "endOnly", 8895>>,
     <<50, 80, 2500, "full", 15328>>,
     <<0, 500, 0, "full", 12050>>}

\* A bill whose period starts on the Monday after the clocks went back.
AutumnBill ==
    NationalGridRecord(Date(2024, 12, 3), Date(2024, 11, 4), Date(2024, 12, 3),
                       50, 80, Dollars(15328), 2500)

ElectricBills ==
    {NationalGridRecord(dt,
                        IF p[4] = "full" THEN PeriodStartOf(dt) ELSE NullDate,
                        IF p[4] = "none" THEN NullDate ELSE dt,
                        p[1], p[2], Dollars(p[5]), p[3]) :
        dt \in BillDates, p \in ElectricProfiles}
    \cup {AutumnBill}

SolarBills == {SunrunRecord(dt, 300, Dollars(15328)) : dt \in {Date(2024, 12, 20), Date(2024, 12, 21)}}

GasBills ==
    {EversourceRecord(Date(2025, 1, 1), 11, Dollars(3582)),
     EversourceRecord(Date(2024, 10, 2), 2, Dollars(2917))}

Bills == ElectricBills \cup SolarBills \cup GasBills

\* Daily production series (tenths of a kWh), as setDailySolarData receives them.
DailyA ==
    [dt \in {Date(2024, 11, 19), Date(2024, 11, 20), Date(2024, 12, 19), Date(2024, 12, 20)} |->
        IF dt = Date(2024, 11, 19) THEN 70
        ELSE IF dt = Date(2024, 11, 20) THEN 1500
        ELSE IF dt = Date(2024, 12, 19) THEN 3000
        ELSE 90]

DailyB == [dt \in {Date(2024, 12, 19)} |-> 4]

\* The days around the bounds of AutumnBill: 2.6, 3.1, 4.0 and 6.4 kWh.
DailyC ==
    [dt \in {Date(2024, 11, 2), Date(2024, 11, 3), Date(2024, 12, 2), Date(2024, 12, 3)} |->
        IF dt = Date(2024, 11, 2) THEN 26
        ELSE IF dt = Date(2024, 11, 3) THEN 31
        ELSE IF dt = Date(2024, 12, 2) THEN 40
        ELSE 64]

DailyEmpty == [dt \in {} |-> 0]

DailySeries == {DailyA, DailyB, DailyC, DailyEmpty}

----------------------------------------------------------------------------
(* The analyzer under any sequence of calls                                *)

\* The buckets that differ between two values of monthlyData.
Touched(before, after) ==
    {k \in DOMAIN after : k \notin DOMAIN before \/ after[k] # before[k]}

InitAnalyzer ==
    /\ monthlyData = [k \in {} |-> EmptyBucket(k)]
    /\ dailySolarData = [isSet |-> FALSE, data |-> DailyEmpty]
    /\ chartData = <<>>
    /\ calls = <<>>
    /\ input = NoInput
    /\ result = NotCalled
    /\ timeZone \in TimeZones
    /\ MainIdle

\* analyzer.addBill(data).  The summaries returned earlier are dropped by the
\* caller once the analyzer changes.
AddBill(data) ==
    /\ pc = "idle"
    /\ Len(calls) < MaxBills
    /\ monthlyData' = addBill(monthlyData, data)
    /\ calls' = Append(calls, [data |-> data,
                               touched |-> Touched(monthlyData, addBill(monthlyData, data))])
    /\ chartData' = <<>>
    /\ UNCHANGED <<timeZone, dailySolarData, extractorVars, mainVars>>

\* analyzer.setDailySolarData(dailyData), called at most once.
SetDailySolarData(dailyData) ==
    /\ pc = "idle"
    /\ ~dailySolarData.isSet
    /\ dailySolarData' = [isSet |-> TRUE, data |-> dailyData]
    /\ chartData' = <<>>
    /\ UNCHANGED <<timeZone, monthlyData, calls, extractorVars, mainVars>>

\* A plausible slip: the metrics written into the bucket itself
\* (Object.assign(d, ...) for the spread into a new object).
GetMonthlyAnalysisInPlace ==
    /\ pc = "idle"
    /\ chartData' = getMonthlyAnalysis(monthlyData, dailySolarData)
    /\ monthlyData' = [k \in DOMAIN monthlyData |->
                          Summary(monthlyData[k], k, dailySolarData)]
    /\ UNCHANGED <<timeZone, dailySolarData, calls, extractorVars, mainVars>>

\* chartData = analyzer.getMonthlyAnalysis()
GetMonthlyAnalysis ==
    /\ pc = "idle"
    /\ chartData' = getMonthlyAnalysis(monthlyData, dailySolarData)
    /\ UNCHANGED <<timeZone, monthlyData, dailySolarData, calls, extractorVars, mainVars>>

NextAnalyzer ==
    \/ \E data \in Bills : AddBill(data)
    \/ \E dailyData \in DailySeries : SetDailySolarData(dailyData)
    \/ GetMonthlyAnalysis

SpecAnalyzer == InitAnalyzer /\ [][NextAnalyzer]_vars

----------------------------------------------------------------------------
(* The batch run: main of analyzeBills.js                                   *)

TypeOrder == <<"NationalGrid", "Sunrun", "Eversource">>

GoodElectricDoc ==
    [readable |-> TRUE, eastOfUTC |-> FALSE, period |-> "full",
     startText |-> DateText(Date(2024, 11, 21)), endText |-> DateText(Date(2024, 12, 20)),
     currentCharges |-> Match(12050), totalDue |-> NoMatch,
     netUsage |-> Match(0 - 964), genUsage |-> Match(0 - 1439), credit |-> Match(57749)]

\* No "BILLING PERIOD ... to <date>" in the text.
UndatedElectricDoc == [GoodElectricDoc EXCEPT !.period = "none"]

UnreadableElectricDoc == [GoodElectricDoc EXCEPT !.readable = FALSE]

\* Only "... to <date>" of the billing period is found, and no credit balance.
FallbackElectricDoc ==
    [GoodElectricDoc EXCEPT !.period = "endOnly", !.endText = DateText(Date(2024, 12, 18)),
                            !.currentCharges = Match(8895), !.credit = NoMatch]

GoodSolarDoc ==
    [readable |-> TRUE, clockYear |-> 2026,
     dueDate |-> DateText(Date(2025, 12, 14)), billingEnd |-> BillingEnd("Nov", 14),
     billDate |-> NoDateText,
     totalDue |-> Match(15328), monthlyCharge |-> NoMatch, produced |-> Match(479)]

UndatedSolarDoc == [GoodSolarDoc EXCEPT !.dueDate = NoDateText, !.billingEnd = NoBillingEnd]

\* "Electricity Produced (estimated, kWh)": the production pattern captures ",".
GarbledSolarDoc == [GoodSolarDoc EXCEPT !.produced = Match(NaN)]

GoodGasDoc ==
    [readable |-> TRUE, statementDate |-> StatementDate(12, 2, 2, 24),
     totalDue |-> Match(3582), therms |-> Match(11)]

UnreadableGasDoc == [GoodGasDoc EXCEPT !.readable = FALSE]

FolderDocs ==
    [NationalGrid |-> {GoodElectricDoc, UndatedElectricDoc, UnreadableElectricDoc,
                       FallbackElectricDoc},
     Sunrun |-> {GoodSolarDoc, UndatedSolarDoc, GarbledSolarDoc},
     Eversource |-> {GoodGasDoc, UnreadableGasDoc}]

SeqsUpTo(S, n) == UNION {[1..k -> S] : k \in 0..n}

\* The listings of the three folders: at most MaxFiles files in all.
Listings ==
    {f \in [NationalGrid : SeqsUpTo(FolderDocs.NationalGrid, MaxFiles),
            Sunrun : SeqsUpTo(FolderDocs.Sunrun, MaxFiles),
            Eversource : SeqsUpTo(FolderDocs.Eversource, MaxFiles)] :
        Len(f.NationalGrid) + Len(f.Sunrun) + Len(f.Eversource) <= MaxFiles}

\* file.id of the i-th file of batch b; the ids of one run are all different.
FileId(b, i) == b * 100 + i

StaleId == 0

\* A plausible slip: only the first folder's files taken as active.
ActiveFileIdsFirstFolder(f) == {FileId(1, i) : i \in 1..Len(f[TypeOrder[1]])}

\* activeFileIds: the ids of all the files listed in this run.
ActiveFileIds(f) == UNION {{FileId(b, i) : i \in 1..Len(f[TypeOrder[b]])} : b \in 1..3}

\* A number written by JSON.stringify and read back by JSON.parse: NaN is
\* written as null, which every use of the field in addBill (+=, || 0, > 0)
\* takes as 0.
JsonNumber(x) == IF x = NaN THEN 0 ELSE x

\* A record saved in the cache file by one run and loaded by the next.
JsonRoundTrip(rec) ==
    [rec EXCEPT !.usage = JsonNumber(@), !.exported = JsonNumber(@),
                !.production = JsonNumber(@), !.therms = JsonNumber(@)]

\* The bill cache a previous run of the program left on disk: the records of
\* the first file of each folder (when warm), and one of a file no longer listed.
FirstFileRecords(f) ==
    {<<FileId(b, 1), JsonRoundTrip(BillParser_parse(TypeOrder[b], f[TypeOrder[b]][1]).rec)>> :
        b \in {c \in 1..3 : /\ Len(f[TypeOrder[c]]) >= 1
                            /\ BillParser_parse(TypeOrder[c], f[TypeOrder[c]][1]).kind = "record"}}

CacheOf(pairs) ==
    [id \in {pr[1] : pr \in pairs} |-> (CHOOSE pr \in pairs : pr[1] = id)[2]]

StaleRecord == EversourceRecord(Date(2023, 3, 2), 40, Dollars(9120))

InitMain ==
    /\ pc = "process"
    /\ files \in Listings
    /\ batch = 1
    /\ cursor = 1
    /\ \E warm \in BOOLEAN, stale \in BOOLEAN :
          billCache = CacheOf((IF warm THEN FirstFileRecords(files) ELSE {})
                              \cup (IF stale THEN {<<StaleId, StaleRecord>>} ELSE {}))
    /\ sunrunCache \in {DailyEmpty, DailyA}
    /\ billData = [ngData |-> <<>>, sunrunData |-> <<>>, gasData |-> <<>>]
    /\ errorLog = {}
    /\ fetched = {}
    /\ pushedIds = [ngData |-> <<>>, sunrunData |-> <<>>, gasData |-> <<>>]
    /\ removedCount = 0
    /\ monthlyData = [k \in {} |-> EmptyBucket(k)]
    /\ dailySolarData = [isSet |-> FALSE, data |-> DailyEmpty]
    /\ chartData = <<>>
    /\ calls = <<>>
    /\ input = NoInput
    /\ result = NotCalled
    /\ timeZone \in TimeZones

TargetArray == <<"ngData", "sunrunData", "gasData">>

CurrentFiles == files[TypeOrder[batch]]

\* A plausible slip: unshift for push.
Unshift(data) == [billData EXCEPT ![TargetArray[batch]] = <<data>> \o @]

Push(data) == [billData EXCEPT ![TargetArray[batch]] = Append(@, data)]

\* The file.id of the loop iteration that made the push.
PushId(id) == [pushedIds EXCEPT ![TargetArray[batch]] = Append(@, id)]

\* The try block of the extractor of a type (its catch prints the error).
TryOf(type, doc) ==
    IF type = "NationalGrid" THEN NationalGridTry(doc)
    ELSE IF type = "Sunrun" THEN SunrunTry(doc)
    ELSE EversourceTry(doc)

\* processFiles with the continue of the cache branch left out: the cached
\* record is pushed and the file is then downloaded, parsed and pushed again.
UseCachedNoContinue ==
    /\ pc = "process"
    /\ cursor <= Len(CurrentFiles)
    /\ FileId(batch, cursor) \in DOMAIN billCache
    /\ LET id == FileId(batch, cursor)
           data == BillParser_parse(TypeOrder[batch], CurrentFiles[cursor])
           again == data.kind = "record"
       IN  /\ billData' = [billData EXCEPT ![TargetArray[batch]] =
                              IF again THEN Append(Append(@, billCache[id]), data.rec)
                              ELSE Append(@, billCache[id])]
           /\ pushedIds' = [pushedIds EXCEPT ![TargetArray[batch]] =
                              IF again THEN Append(Append(@, id), id) ELSE Append(@, id)]
           /\ billCache' = IF again THEN [billCache EXCEPT ![id] = data.rec] ELSE billCache
           /\ fetched' = fetched \cup {id}
    /\ cursor' = cursor + 1
    /\ UNCHANGED <<timeZone, pc, files, removedCount, batch, sunrunCache, errorLog,
                   analyzerVars, extractorVars>>

\* processFiles, one file: the cache holds its id.
UseCached ==
    /\ pc = "process"
    /\ cursor <= Len(CurrentFiles)
    /\ FileId(batch, cursor) \in DOMAIN billCache
    /\ billData' = Push(billCache[FileId(batch, cursor)])
    /\ pushedIds' = PushId(FileId(batch, cursor))
    /\ cursor' = cursor + 1
    /\ UNCHANGED <<timeZone, pc, files, removedCount, batch, billCache, sunrunCache,
                   errorLog, fetched, analyzerVars, extractorVars>>

\* processFiles, one file: drive.getFile throws, the catch prints the failure.
DownloadFails ==
    /\ pc = "process"
    /\ cursor <= Len(CurrentFiles)
    /\ FileId(batch, cursor) \notin DOMAIN billCache
    /\ errorLog' = errorLog \cup {FileId(batch, cursor)}
    /\ fetched' = fetched \cup {FileId(batch, cursor)}
    /\ cursor' = cursor + 1
    /\ UNCHANGED <<timeZone, pc, files, removedCount, batch, billCache, sunrunCache,
                   billData, pushedIds, analyzerVars, extractorVars>>

\* processFiles, one file: downloaded and parsed; a result that is not null is
\* pushed and cached.
ParseFile ==
    /\ pc = "process"
    /\ cursor <= Len(CurrentFiles)
    /\ FileId(batch, cursor) \notin DOMAIN billCache
    /\ LET type == TypeOrder[batch]
           doc == CurrentFiles[cursor]
           data == BillParser_parse(type, doc)
       IN  /\ IF data.kind = "record"
              THEN /\ billData' = Push(data.rec)
                   /\ pushedIds' = PushId(FileId(batch, cursor))
                   /\ billCache' = [id \in DOMAIN billCache \cup {FileId(batch, cursor)} |->
                                       IF id = FileId(batch, cursor) THEN data.rec
                                       ELSE billCache[id]]
              ELSE UNCHANGED <<billData, billCache, pushedIds>>
           /\ errorLog' = IF data.kind = "throw" \/ TryOf(type, doc).kind = "exception"
                          THEN errorLog \cup {FileId(batch, cursor)}
                          ELSE errorLog
    /\ fetched' = fetched \cup {FileId(batch, cursor)}
    /\ cursor' = cursor + 1
    /\ UNCHANGED <<timeZone, pc, files, removedCount, batch, sunrunCache, analyzerVars,
                   extractorVars>>

\* The end of one processFiles call.
EndBatch ==
    /\ pc = "process"
    /\ cursor > Len(CurrentFiles)
    /\ IF batch < 3
       THEN batch' = batch + 1 /\ cursor' = 1 /\ pc' = pc
       ELSE pc' = "cleanup" /\ UNCHANGED <<batch, cursor>>
    /\ UNCHANGED <<timeZone, files, removedCount, billCache, sunrunCache, billData,
                   errorLog, fetched, pushedIds, analyzerVars, extractorVars>>

\* The entries of files that are no longer listed are deleted; the cache is saved.
CleanupCache ==
    /\ pc = "cleanup"
    /\ billCache' = [id \in DOMAIN billCache \cap ActiveFileIds(files) |-> billCache[id]]
    /\ removedCount' = Cardinality(DOMAIN billCache \ ActiveFileIds(files))
    /\ pc' = "aggregate"
    /\ UNCHANGED <<timeZone, files, batch, cursor, sunrunCache, billData, errorLog, fetched,
                   pushedIds, analyzerVars, extractorVars>>

\* new EnergyAnalyzer(); analyzer.setDailySolarData(sunrunCache.cache)
Aggregate ==
    /\ pc = "aggregate"
    /\ monthlyData' = [k \in {} |-> EmptyBucket(k)]
    /\ dailySolarData' = [isSet |-> TRUE, data |-> sunrunCache]
    /\ pc' = "feed"
    /\ cursor' = 1
    /\ UNCHANGED <<timeZone, files, removedCount, batch, billCache, sunrunCache, billData,
                   errorLog, fetched, pushedIds, chartData, calls, extractorVars>>

\* The order of the three forEach loops over ngData, sunrunData, gasData.
FeedOrder == billData.ngData \o billData.sunrunData \o billData.gasData

\* analyzer.addBill(d) of the next record.
FeedBill ==
    /\ pc = "feed"
    /\ cursor <= Len(FeedOrder)
    /\ FeedOrder[cursor].date # NullDate
    /\ monthlyData' = addBill(monthlyData, FeedOrder[cursor])
    /\ calls' = Append(calls, [data |-> FeedOrder[cursor],
                               touched |-> Touched(monthlyData,
                                                   addBill(monthlyData, FeedOrder[cursor]))])
    /\ cursor' = cursor + 1
    /\ UNCHANGED <<timeZone, pc, files, removedCount, batch, billCache, sunrunCache,
                   billData, errorLog, fetched, pushedIds, dailySolarData, chartData,
                   extractorVars>>

\* data.date.split('-') of a record whose date is null: a TypeError that nothing
\* in main catches; the run ends without a report.
FeedThrows ==
    /\ pc = "feed"
    /\ cursor <= Len(FeedOrder)
    /\ FeedOrder[cursor].date = NullDate
    /\ pc' = "crashed"
    /\ UNCHANGED <<timeZone, files, removedCount, batch, cursor, billCache, sunrunCache,
                   billData, errorLog, fetched, pushedIds, analyzerVars, extractorVars>>

\* chartData = analyzer.getMonthlyAnalysis(); the report is written.
Analyze ==
    /\ pc = "feed"
    /\ cursor > Len(FeedOrder)
    /\ chartData' = getMonthlyAnalysis(monthlyData, dailySolarData)
    /\ pc' = "done"
    /\ UNCHANGED <<timeZone, files, removedCount, batch, cursor, billCache, sunrunCache,
                   billData, errorLog, fetched, pushedIds, monthlyData, dailySolarData,
                   calls, extractorVars>>

Next ==
    \/ UseCached
    \/ DownloadFails
    \/ ParseFile
    \/ EndBatch
    \/ CleanupCache
    \/ Aggregate
    \/ FeedBill
    \/ FeedThrows
    \/ Analyze

Spec == InitMain /\ [][Next]_vars

----------------------------------------------------------------------------
(* Properties of the analyzer                                              *)

CallIndexes == 1..Len(calls)

PrevMonthKey(y, m) == IF m = 1 THEN <<y - 1, 12>> ELSE <<y, m - 1>>

NextMonthKey(y, m) == IF m = 12 THEN <<y + 1, 1>> ELSE <<y, m + 1>>

\* The bucket the heuristic names for a date: the month before for days 1..20.
ExpectedKey(dt) == IF dt.d <= 20 THEN PrevMonthKey(dt.y, dt.m) ELSE <<dt.y, dt.m>>

C3_SelfUseBounded ==
    \A i \in 1..Len(chartData) :
        /\ chartData[i].selfUse >= 0
        /\ chartData[i].selfUse <= chartData[i].totalProduction
        /\ chartData[i].selfUse = Max(0, chartData[i].totalProduction - chartData[i].ngExport)

\* The clamp at work: more exported than produced, with a daily series set.
C3_Witness ==
    /\ dailySolarData.isSet
    /\ \E i \in 1..Len(chartData) :
          /\ chartData[i].ngExport > chartData[i].totalProduction
          /\ chartData[i].totalProduction > 0
          /\ chartData[i].selfUse = 0
    /\ \E i \in 1..Len(chartData) :
          /\ chartData[i].selfUse > 0
          /\ chartData[i].selfUse < chartData[i].totalProduction

NetUsageOf(data) == data.usage - data.exported

\* Three Electric records with net usage -200, -100 and +50 whose meter
\* production adds up to 280, all dated in one calendar month, analysed with no
\* daily series.
C8_ThreeElectricBills ==
    /\ Len(calls) = 3
    /\ \A i \in CallIndexes : calls[i].data.type = "NationalGrid"
    /\ {NetUsageOf(calls[i].data) : i \in CallIndexes} = {0 - 200, 0 - 100, 50}
    /\ calls[1].data.production + calls[2].data.production + calls[3].data.production = 280
    /\ \A i \in CallIndexes :
          /\ calls[i].data.date.y = calls[1].data.date.y
          /\ calls[i].data.date.m = calls[1].data.date.m
    /\ ~dailySolarData.isSet
    /\ chartData # <<>>

C8_ExpectedSummary ==
    /\ Len(chartData) = 1
    /\ chartData[1].ngExport = 300
    /\ chartData[1].ngUsage = 50
    /\ chartData[1].totalProduction = 280
    /\ chartData[1].selfUse = 0
    /\ chartData[1].trueConsumption = 50

\* All three records on the same side of the day-20 threshold.
C8_SameSideOfThreshold ==
    \/ \A i \in CallIndexes : calls[i].data.date.d <= 20
    \/ \A i \in CallIndexes : calls[i].data.date.d >= 21

\* C8 as stated: three such records dated in one calendar month produce one
\* summary with exported 300, imported 50, totalProduction 280, selfUse 0 and
\* trueConsumption 50.
C8_AsStated == C8_ThreeElectricBills => C8_ExpectedSummary

\* C8 amended: three such records dated in one calendar month, all with day <= 20
\* or all with day >= 21, produce one summary with exported 300, imported 50,
\* totalProduction 280, selfUse 0 and trueConsumption 50.
C8_OneBucketScenario ==
    (C8_ThreeElectricBills /\ C8_SameSideOfThreshold) => C8_ExpectedSummary

C8_Witness ==
    /\ C8_ThreeElectricBills
    /\ C8_SameSideOfThreshold
    /\ NetUsageOf(calls[1].data) = 0 - 200
    /\ NetUsageOf(calls[3].data) = 50
    /\ chartData[1].month = <<2024, 12>>
    /\ chartData[1].trueConsumption = 50

\* The Electric records assigned to bucket k among the first n calls.
IsElectricIn(k, i) == calls[i].data.type = "NationalGrid" /\ k \in calls[i].touched

RECURSIVE LastPositiveCredit(_, _)
LastPositiveCredit(k, n) ==
    IF n = 0 THEN 0
    ELSE IF IsElectricIn(k, n) /\ calls[n].data.credit > 0 THEN calls[n].data.credit
    ELSE LastPositiveCredit(k, n - 1)

\* C9: a bucket's credit balance is the credit of the last Electric record
\* assigned to it whose credit is strictly positive, or 0 when there is none:
\* never a sum, and never overwritten by a record with credit 0.
C9_CreditLastPositive ==
    \A k \in DOMAIN monthlyData :
        monthlyData[k].ngCredit = LastPositiveCredit(k, Len(calls))

\* Two positive credits and then a credit of 0 in one bucket: the second one stays.
C9_Witness ==
    /\ Len(calls) = 3
    /\ \E k \in DOMAIN monthlyData :
          /\ \A i \in CallIndexes : IsElectricIn(k, i)
          /\ calls[1].data.credit = 1000
          /\ calls[2].data.credit = 2500
          /\ calls[3].data.credit = 0
          /\ monthlyData[k].ngCredit = 2500

\* The last Electric record assigned to bucket k among the first n calls (0: none).
RECURSIVE LastElectric(_, _)
LastElectric(k, n) ==
    IF n = 0 THEN 0
    ELSE IF IsElectricIn(k, n) THEN n
    ELSE LastElectric(k, n - 1)

\* C10 as stated: a bucket's period start and end are the bounds of the most
\* recent Electric record assigned to it, both overwritten together.
C10_AsStated ==
    \A k \in DOMAIN monthlyData :
        LET n == LastElectric(k, Len(calls)) IN
        n # 0 => /\ monthlyData[k].ngStartDate = calls[n].data.startDate
                 /\ monthlyData[k].ngEndDate = calls[n].data.endDate

RECURSIVE LastStartSupplied(_, _)
LastStartSupplied(k, n) ==
    IF n = 0 THEN NullDate
    ELSE IF IsElectricIn(k, n) /\ calls[n].data.startDate # NullDate THEN calls[n].data.startDate
    ELSE LastStartSupplied(k, n - 1)

RECURSIVE LastEndSupplied(_, _)
LastEndSupplied(k, n) ==
    IF n = 0 THEN NullDate
    ELSE IF IsElectricIn(k, n) /\ calls[n].data.endDate # NullDate THEN calls[n].data.endDate
    ELSE LastEndSupplied(k, n - 1)

\* C10 amended: a bucket's period start is the start of the most recent Electric
\* record assigned to it that supplies a start, and its period end the end of the
\* most recent one that supplies an end (each unset when no record supplies it);
\* the two fields are overwritten independently, so they may come from different
\* records.
C10_BoundsLastSupplied ==
    \A k \in DOMAIN monthlyData :
        /\ monthlyData[k].ngStartDate = LastStartSupplied(k, Len(calls))
        /\ monthlyData[k].ngEndDate = LastEndSupplied(k, Len(calls))

\* A record with both bounds followed, in the same bucket, by one with the end alone.
C10_Witness ==
    /\ Len(calls) = 2
    /\ \A i \in CallIndexes : IsElectricIn(<<2024, 12>>, i)
    /\ calls[1].data.startDate = Date(2024, 11, 22) /\ calls[1].data.endDate = Date(2024, 12, 21)
    /\ calls[2].data.startDate = NullDate /\ calls[2].data.endDate = Date(2025, 1, 1)
    /\ monthlyData[<<2024, 12>>].ngStartDate = Date(2024, 11, 22)
    /\ monthlyData[<<2024, 12>>].ngEndDate = Date(2025, 1, 1)

\* monthlyData after the first n records of seq are passed to a new analyzer.
RECURSIVE Replay(_, _)
Replay(seq, n) ==
    IF n = 0 THEN [k \in {} |-> EmptyBucket(k)]
    ELSE addBill(Replay(seq, n - 1), seq[n])

\* The records passed so far, in the order p.
Reordered(p) == [i \in CallIndexes |-> calls[p[i]].data]

EnergySums(b) == <<b.ngUsage, b.ngExport, b.ngProd, b.sunrunProd, b.gasTherms>>

CostSums(b) == <<b.ngCost, b.sunrunCost, b.gasCost>>

\* C11 as stated: whatever the order in which the records passed so far are
\* given to addBill, the buckets are the same and every summed field of every
\* bucket (electric cost, import, export, meter production, solar cost and
\* production, gas cost and therms) has the same value.
C11_AsStated ==
    \A p \in Permutations(CallIndexes) :
        LET md == Replay(Reordered(p), Len(calls)) IN
        /\ DOMAIN md = DOMAIN monthlyData
        /\ \A k \in DOMAIN monthlyData :
              /\ EnergySums(md[k]) = EnergySums(monthlyData[k])
              /\ CostSums(md[k]) = CostSums(monthlyData[k])

\* The part of C11 the code keeps: the buckets and their energy sums (whole
\* numbers) do not depend on the order.
C11_EnergySumsAnyOrder ==
    \A p \in Permutations(CallIndexes) :
        LET md == Replay(Reordered(p), Len(calls)) IN
        /\ DOMAIN md = DOMAIN monthlyData
        /\ \A k \in DOMAIN monthlyData : EnergySums(md[k]) = EnergySums(monthlyData[k])

\* The same record passed twice to a new analyzer, and nothing else.
SameRecordTwice == Len(calls) = 2 /\ calls[1].data = calls[2].data

\* C12: addBill does not deduplicate: after the same record is passed twice to
\* an empty analyzer, the one bucket it goes to holds summed fields that are
\* exactly twice those the record gives when passed once.
C12_DuplicateDoubles ==
    SameRecordTwice =>
        LET once == Replay(<<calls[1].data>>, 1) IN
        /\ DOMAIN monthlyData = DOMAIN once
        /\ \A k \in DOMAIN monthlyData :
              /\ EnergySums(monthlyData[k]) =
                     [i \in 1..5 |-> 2 * EnergySums(once[k])[i]]
              /\ CostSums(monthlyData[k]) =
                     [i \in 1..3 |-> FMul(2, CostSums(once[k])[i])]

\* An Electric bill of 88.95 with 100 kWh exported, passed twice: 177.90 and 200.
C12_Witness ==
    /\ SameRecordTwice
    /\ calls[1].data.type = "NationalGrid"
    /\ calls[1].data.exported = 100
    /\ calls[1].data.cost = Dollars(8895)
    /\ \E k \in DOMAIN monthlyData :
          /\ monthlyData[k].ngExport = 200
          /\ monthlyData[k].ngProd = 200
          /\ monthlyData[k].ngCost = Dollars(17790)

\* Month a is before month b in the calendar.
Earlier(a, b) == a[1] < b[1] \/ (a[1] = b[1] /\ a[2] < b[2])

\* C14: getMonthlyAnalysis returns exactly one summary per existing bucket, in
\* strictly ascending order of the "YYYY-MM" key, and that order is the
\* chronological order of the months.
C14_SortedChronologically ==
    chartData # <<>> =>
        /\ Len(chartData) = Cardinality(DOMAIN monthlyData)
        /\ {chartData[i].month : i \in 1..Len(chartData)} = DOMAIN monthlyData
        /\ \A i \in 1..(Len(chartData) - 1) :
              /\ StringLess(KeyString(chartData[i].month), KeyString(chartData[i + 1].month))
              /\ Earlier(chartData[i].month, chartData[i + 1].month)

\* Three buckets over two years, a one-digit month among them.
C14_Witness ==
    /\ Len(chartData) = 3
    /\ chartData[1].month = <<2024, 9>>
    /\ chartData[2].month = <<2024, 11>>
    /\ chartData[3].month = <<2024, 12>>

\* A step that is neither an addBill nor a setDailySolarData call.
NoMutatorStep == calls' = calls /\ dailySolarData'.isSet = dailySolarData.isSet

\* C17: getMonthlyAnalysis is pure: a call leaves every bucket and the daily
\* series as they were, and as long as no addBill or setDailySolarData call
\* comes in between, another call returns summaries equal to those returned
\* before.
C17_AnalysisIsPure ==
    /\ [][NoMutatorStep =>
              /\ monthlyData' = monthlyData
              /\ dailySolarData' = dailySolarData]_vars
    /\ [](chartData # <<>> => chartData = getMonthlyAnalysis(monthlyData, dailySolarData))

\* Summaries returned for two buckets with a daily series set.
C17_Witness ==
    /\ Len(chartData) = 2
    /\ dailySolarData.isSet
    /\ \E i \in 1..2 : chartData[i].billingPeriodProd > 0
    /\ \E i \in 1..2 : chartData[i].selfUse > 0

\* C19: in every summary effectiveRate is (electric cost sum + solar cost sum)
\* / trueConsumption when trueConsumption > 0 and 0 otherwise; the divisor is
\* never 0.
C19_RateGuarded ==
    \A i \in 1..Len(chartData) :
        LET s == chartData[i] IN
        /\ s.effectiveRate.den # 0
        /\ Gt(s.trueConsumption, 0) =>
               s.effectiveRate = [num |-> FAdd(s.ngCost, s.sunrunCost),
                                  den |-> s.trueConsumption]
        /\ ~Gt(s.trueConsumption, 0) => s.effectiveRate = [num |-> Zero, den |-> 1]

\* A bucket with costs and nothing consumed beside one with a true rate.
C19_Witness ==
    /\ \E i \in 1..Len(chartData) :
          /\ chartData[i].trueConsumption = 0
          /\ chartData[i].totalCost # Zero
          /\ chartData[i].effectiveRate = [num |-> Zero, den |-> 1]
    /\ \E i \in 1..Len(chartData) :
          /\ chartData[i].trueConsumption > 0
          /\ chartData[i].effectiveRate.num = chartData[i].totalCost
          /\ chartData[i].effectiveRate.num # Zero

\* C20: in every summary the gas energy equivalent is the accumulated therms
\* times the double 29.3, and 11 therms give exactly the double 322.3.
C20_GasEquivalent ==
    \A i \in 1..Len(chartData) :
        LET s == chartData[i] IN
        /\ s.gasKwh = FMul(s.gasTherms, DecimalToDouble(293, 10))
        /\ s.gasTherms = 11 => s.gasKwh = DecimalToDouble(3223, 10)

\* One gas bill of 11 therms in a bucket, two of them in another analysis.
C20_Witness ==
    \E i \in 1..Len(chartData) :
        /\ chartData[i].gasTherms = 11
        /\ chartData[i].gasKwh = DecimalToDouble(3223, 10)
        /\ chartData[i].gasCost = Dollars(3582)

\* What makes the try block of an extractor raise: the document cannot be
\* decoded, or (Electric) a matched date text is not a date.
RaisesInside(in) ==
    \/ ~in.doc.readable
    \/ /\ in.type = "NationalGrid"
       /\ \/ in.doc.period = "full" /\ ~(in.doc.startText.valid /\ in.doc.endText.valid)
          \/ in.doc.period = "endOnly" /\ ~in.doc.endText.valid

\* Whether the text holds a date the extractor of the type can locate.
DateLocated(in) ==
    IF in.type = "NationalGrid" THEN in.doc.period \in {"full", "endOnly"}
    ELSE IF in.type = "Sunrun" THEN in.doc.billingEnd.matched \/ in.doc.dueDate.matched
    ELSE in.doc.statementDate.matched

\* The net usage the Electric extractor parsed from the document (0 when the
\* pattern does not match).
ParsedNetUsage(doc) == IF doc.netUsage.matched THEN doc.netUsage.value ELSE 0

\* C13: in every Electric record the extractor returns, import and export are
\* both >= 0 and never both positive: a positive net usage gives import = net
\* usage and export = 0, a negative one export = |net usage| and import = 0.
C13_ImportExportExclusive ==
    (input.type = "NationalGrid" /\ result.kind = "record") =>
        LET net == ParsedNetUsage(input.doc)
            rec == result.rec
        IN  /\ rec.usage >= 0 /\ rec.exported >= 0
            /\ ~(rec.usage > 0 /\ rec.exported > 0)
            /\ (net # NaN /\ net > 0) => (rec.usage = net /\ rec.exported = 0)
            /\ (net # NaN /\ net < 0) => (rec.exported = 0 - net /\ rec.usage = 0)

\* "Total Usage -964 kWh": 964 exported, nothing imported.
C13_Witness ==
    /\ input.type = "NationalGrid"
    /\ result.kind = "record"
    /\ ParsedNetUsage(input.doc) = 0 - 964
    /\ result.rec.exported = 964
    /\ result.rec.usage = 0

\* The text a pattern captured is not a number once its commas are removed.
Unparseable(capture) == capture.matched /\ capture.value = NaN

\* C18 as stated: no numeric field of a returned record is NaN; a field whose
\* captured text is not parseable as a number is the default 0.
C18_AsStated ==
    result.kind = "record" =>
        /\ result.rec.usage # NaN /\ result.rec.exported # NaN
        /\ result.rec.production # NaN /\ result.rec.therms # NaN
        /\ (input.type = "NationalGrid" /\ Unparseable(input.doc.netUsage))
               => (result.rec.usage = 0 /\ result.rec.exported = 0)
        /\ (input.type = "NationalGrid" /\ Unparseable(input.doc.genUsage))
               => result.rec.production = 0
        /\ (input.type = "Sunrun" /\ Unparseable(input.doc.produced))
               => result.rec.production = 0
        /\ (input.type = "Eversource" /\ Unparseable(input.doc.therms))
               => result.rec.therms = 0

\* The second half of C18: no bucket sum is NaN.
C18_NoNaNInBuckets ==
    \A k \in DOMAIN monthlyData :
        \A i \in 1..5 : EnergySums(monthlyData[k])[i] # NaN

\* C4 as stated: every record an extractor returns has a non-null date, and
\* when the date cannot be located the extractor returns null, not a record.
C4_AsStated ==
    /\ result.kind = "record" => result.rec.date # NullDate
    /\ (result # NotCalled /\ ~DateLocated(input)) => result.kind = "null"

\* C6: an extractor call never throws to its caller; an exception raised while
\* the document is decoded or its text extracted, an unparseable date string
\* included, is caught and the call returns null.
C6_NeverThrows ==
    result # NotCalled =>
        /\ result.kind \in {"record", "null"}
        /\ RaisesInside(input) => result = ReturnedNull

\* An unparseable end date in a readable Electric document: null is returned.
C6_Witness ==
    /\ input.type = "NationalGrid"
    /\ input.doc.readable
    /\ input.doc.period = "endOnly"
    /\ ~input.doc.endText.valid
    /\ result = ReturnedNull

\* The record of a listed file is accumulated when some addBill call received it.
Accumulated(rec) == \E i \in CallIndexes : calls[i].data = rec

\* The extractor yields a dated record for the i-th file of batch b.
Extractable(b, i) ==
    LET data == BillParser_parse(TypeOrder[b], files[TypeOrder[b]][i])
    IN  data.kind = "record" /\ data.rec.date # NullDate

\* processFiles is done with the i-th file of batch b.
Processed(b, i) == pc # "process" \/ b < batch \/ (b = batch /\ i < cursor)

\* The i-th file of batch b was processed and gave no record.
Failed(b, i) == Processed(b, i) /\ FileId(b, i) \notin DOMAIN billCache

\* C15 as stated: every document of the batch whose processing failed (download
\* error, parse exception, or null returned for a missing date) was reported:
\* an error naming it was printed or it was counted as a failure.
C15_AsStated ==
    \A b \in 1..3 : \A i \in 1..Len(files[TypeOrder[b]]) :
        Failed(b, i) => FileId(b, i) \in errorLog

\* The part of C15 the code keeps: a download error or an exception inside the
\* extractor is printed.
C15_ExceptionsPrinted ==
    \A b \in 1..3 : \A i \in 1..Len(files[TypeOrder[b]]) :
        (Failed(b, i) /\ BillParser_parse(TypeOrder[b], files[TypeOrder[b]][i]) # ReturnedNull)
            => FileId(b, i) \in errorLog

\* The step of processFiles on a file whose id is in the cache.
CacheHitStep ==
    /\ pc = "process"
    /\ cursor <= Len(CurrentFiles)
    /\ FileId(batch, cursor) \in DOMAIN billCache
    /\ cursor' = cursor + 1

\* The first half of C16: on a cache hit nothing is downloaded or parsed and
\* the cached record is the one pushed.
C16_HitSkipsExtraction ==
    [][CacheHitStep =>
          /\ fetched' = fetched
          /\ billCache' = billCache
          /\ billData' = Push(billCache[FileId(batch, cursor)])]_vars

\* The i-th file of batch b was served from the cache.
CacheHit(b, i) ==
    /\ Processed(b, i)
    /\ FileId(b, i) \in DOMAIN billCache
    /\ FileId(b, i) \notin fetched

\* The second half of C16: the cached record of a file gives the same bucket as
\* the record a new extraction of the document returns.
C16_SameAsReExtracted ==
    \A b \in 1..3 : \A i \in 1..Len(files[TypeOrder[b]]) :
        (CacheHit(b, i) /\ billCache[FileId(b, i)].date # NullDate) =>
            LET fresh == BillParser_parse(TypeOrder[b], files[TypeOrder[b]][i]) IN
            /\ fresh.kind = "record"
            /\ Replay(<<billCache[FileId(b, i)]>>, 1) = Replay(<<fresh.rec>>, 1)

\* C16 as stated: for every listed file whose id has an entry in the bill cache,
\* processFiles downloads and parses nothing and accumulates the cached record,
\* and the buckets are the same as if the document had been extracted again.
C16_AsStated == C16_HitSkipsExtraction /\ []C16_SameAsReExtracted

\* C5 as stated: whatever documents of a batch fail (download error,
\* undecodable document, date not found), the run does not abort: it ends with
\* the monthly summaries produced and the record of every other document
\* accumulated.
C5_AsStated ==
    pc \in {"done", "crashed"} =>
        \A b \in 1..3 : \A i \in 1..Len(files[TypeOrder[b]]) :
            (Extractable(b, i) /\ FileId(b, i) \notin errorLog) =>
                /\ pc = "done"
                /\ Accumulated(BillParser_parse(TypeOrder[b], files[TypeOrder[b]][i]).rec)

\* The file.id behind each record of FeedOrder, in the same order.
FedIds == pushedIds.ngData \o pushedIds.sunrunData \o pushedIds.gasData

RoundedDailySum(from, to) ==
    RoundTenths(SumOver({dt \in DOMAIN dailySolarData.data : DateLE(from, dt) /\ DateLE(dt, to)},
                        dailySolarData.data))

\* The summaries whose bucket has both period bounds, a daily series being set.
BoundedSummaries ==
    {i \in 1..Len(chartData) :
        /\ dailySolarData.isSet
        /\ chartData[i].ngStartDate # NullDate
        /\ chartData[i].ngEndDate # NullDate}

\* C22 as stated: with a daily series set and both period bounds in the bucket,
\* the billing-period production is the rounded sum of the daily entries dated
\* from the day before the period start to the day before the period end.
C22_AsStated ==
    \A i \in BoundedSummaries :
        chartData[i].billingPeriodProd =
            RoundedDailySum(PrevDay(chartData[i].ngStartDate), PrevDay(chartData[i].ngEndDate))

\* C22 where it does hold: in a process whose zone has no daylight saving time.
C22_ShiftedRangeWithoutDST ==
    timeZone = "UTC" => C22_AsStated

\* The summaries whose bucket lacks a period bound, a daily series being set.
UnboundedSummaries ==
    {i \in 1..Len(chartData) :
        /\ dailySolarData.isSet
        /\ (chartData[i].ngStartDate = NullDate \/ chartData[i].ngEndDate = NullDate)}

C24_ListingOrder ==
    pc \in {"cleanup", "aggregate", "feed", "done", "crashed"} =>
        /\ \A b \in 1..3 :
              LET ids == pushedIds[TargetArray[b]]
                  recs == billData[TargetArray[b]]
              IN  /\ Len(recs) = Len(ids)
                  /\ \A i, j \in 1..Len(ids) : i < j => ids[i] < ids[j]
                  /\ {ids[i] : i \in 1..Len(ids)} =
                        {FileId(b, i) : i \in 1..Len(files[TypeOrder[b]])} \cap DOMAIN billCache
                  /\ \A i \in 1..Len(ids) : recs[i] = billCache[ids[i]]
        /\ \A i \in 1..Len(calls) : calls[i].data = FeedOrder[i]
        /\ pc = "done" =>
              /\ Len(calls) = Len(FeedOrder)
              /\ \A k \in DOMAIN monthlyData :
                    /\ monthlyData[k].ngCredit = LastPositiveCredit(k, Len(calls))
                    /\ monthlyData[k].ngStartDate = LastStartSupplied(k, Len(calls))
                    /\ monthlyData[k].ngEndDate = LastEndSupplied(k, Len(calls))

\* Three Electric files listed, the second one failing: the first and the third
\* are accumulated in that order into the same bucket, and the end date is the
\* one of the third.
C24_Witness ==
    /\ pc = "done"
    /\ pushedIds.ngData = <<FileId(1, 1), FileId(1, 3)>>
    /\ Len(calls) = 2
    /\ calls[1].data.endDate = Date(2024, 12, 20) /\ calls[2].data.endDate = Date(2024, 12, 18)
    /\ calls[1].touched = {<<2024, 11>>} /\ calls[2].touched = {<<2024, 11>>}
    /\ monthlyData[<<2024, 11>>].ngEndDate = Date(2024, 12, 18)
    /\ monthlyData[<<2024, 11>>].ngStartDate = Date(2024, 11, 21)

\* C24 as stated: the records are accumulated in listing order, and at the end
\* of the run the credit balance and the period bounds of a bucket are those of
\* the last Electric record, in listing order, assigned to it.
C24_AsStated ==
    /\ \A i \in 1..Len(calls) : calls[i].data = FeedOrder[i]
    /\ pc = "done" =>
          \A k \in DOMAIN monthlyData :
              LET n == LastElectric(k, Len(calls)) IN
              n # 0 => /\ monthlyData[k].ngCredit = calls[n].data.credit
                       /\ monthlyData[k].ngStartDate = calls[n].data.startDate
                       /\ monthlyData[k].ngEndDate = calls[n].data.endDate

\* A Solar document that was read and holds no billing-period range.
SolarWithoutRange ==
    /\ input.type = "Sunrun"
    /\ result # NotCalled
    /\ input.doc.readable
    /\ ~input.doc.billingEnd.matched

\* C25 as stated: without a billing-period range the Solar extractor returns a
\* record dated by the bill date when the text has one, whether or not it has a
\* due date, and otherwise one dated by the due date.
C25_AsStated ==
    SolarWithoutRange =>
        /\ input.doc.billDate.matched =>
              result.kind = "record" /\ result.rec.date = input.doc.billDate.date
        /\ (~input.doc.billDate.matched /\ input.doc.dueDate.matched) =>
              result.kind = "record" /\ result.rec.date = input.doc.dueDate.date

\* The part of C25 the code keeps: the fallback order among the documents that
\* have a due date.
C25_FallbackWithDueDate ==
    (SolarWithoutRange /\ input.doc.dueDate.matched) =>
        /\ result.kind = "record"
        /\ result.rec.date = IF input.doc.billDate.matched THEN input.doc.billDate.date
                             ELSE input.doc.dueDate.date

\* The month a three-letter name stands for, however it is capitalised in the
\* text (0 when it is no month name).
UpperMonthNames == <<"JAN", "FEB", "MAR", "APR", "MAY", "JUN",
                     "JUL", "AUG", "SEP", "OCT", "NOV", "DEC">>

MonthNamed(monthStr) ==
    IF \E i \in 1..12 : monthStr \in {MonthNames[i], UpperMonthNames[i]}
    THEN CHOOSE i \in 1..12 : monthStr \in {MonthNames[i], UpperMonthNames[i]}
    ELSE 0

\* A Solar document that was read and holds a billing-period range and a due date.
SolarWithRange ==
    /\ input.type = "Sunrun"
    /\ result # NotCalled
    /\ input.doc.readable
    /\ input.doc.billingEnd.matched
    /\ input.doc.dueDate.matched

\* C26 as stated: with a billing-period range, the record's year is the year of
\* the due date, less one when the period ends in December and the due date is
\* in January; its month and day are those of the end of the period.
C26_AsStated ==
    SolarWithRange =>
        LET end == input.doc.billingEnd
            due == input.doc.dueDate.date
        IN  /\ result.kind = "record"
            /\ result.rec.date.y = IF MonthNamed(end.monthStr) = 12 /\ due.m = 1
                                   THEN due.y - 1 ELSE due.y
            /\ result.rec.date.m = MonthNamed(end.monthStr)
            /\ result.rec.date.d = end.day

\* The part of C26 the code keeps: the same, for a month written as in the
\* month map ("Nov", not "NOV" or "nov").
C26_YearInferenceAsInMap ==
    (SolarWithRange /\ MonthMap(input.doc.billingEnd.monthStr) # UndefinedMonth) => C26_AsStated

\* An Electric document that was read, where only the fallback pattern (the
\* "to" date alone) finds a date.
ElectricEndOnly ==
    /\ input.type = "NationalGrid"
    /\ result # NotCalled
    /\ input.doc.readable
    /\ input.doc.period = "endOnly"
    /\ input.doc.endText.valid

\* C27 as stated: when only the end date is recovered, the record's date is
\* that end date and the record's period start and period end are both unset.
C27_AsStated ==
    ElectricEndOnly =>
        /\ result.kind = "record"
        /\ result.rec.date = input.doc.endText.date
        /\ result.rec.startDate = NullDate
        /\ result.rec.endDate = NullDate

\* C27 amended: when only the end date is recovered, the record's date and its
\* period end are both that end date as the extractor converts it (the UTC
\* calendar day of local midnight of the printed date: the day before, east of
\* UTC), and only the period start is unset.
C27_FallbackSetsEnd ==
    ElectricEndOnly =>
        /\ result.kind = "record"
        /\ result.rec.date = IF input.doc.eastOfUTC THEN PrevDay(input.doc.endText.date)
                             ELSE input.doc.endText.date
        /\ result.rec.endDate = result.rec.date
        /\ result.rec.startDate = NullDate

\* "BILLING PERIOD ... to Dec 20, 2024" read west of UTC.
C27_Witness ==
    /\ ElectricEndOnly
    /\ ~input.doc.eastOfUTC
    /\ result.kind = "record"
    /\ result.rec.date = Date(2024, 12, 20)
    /\ result.rec.endDate = Date(2024, 12, 20)
    /\ result.rec.startDate = NullDate

\* The fields of a bucket that belong to a source type.
OwnFields(type) ==
    IF type = "NationalGrid"
    THEN {"ngCost", "ngUsage", "ngExport", "ngProd", "ngCredit", "ngStartDate", "ngEndDate"}
    ELSE IF type = "Sunrun" THEN {"sunrunCost", "sunrunProd"}
    ELSE IF type = "Eversource" THEN {"gasCost", "gasTherms"}
    ELSE {}

\* C28: a call of addBill changes only the fields of the record's own source
\* type, in the one bucket the record is assigned to (made first, all zero,
\* when it is not there); every other field of that bucket and every other
\* bucket is as before.
C28_FrameOfAddBill ==
    [][Len(calls') = Len(calls) + 1 =>
          LET data == calls'[Len(calls')].data
              key == BucketKey(data.date)
              before == IF key \in DOMAIN monthlyData THEN monthlyData[key]
                        ELSE EmptyBucket(key)
          IN  /\ DOMAIN monthlyData' = DOMAIN monthlyData \cup {key}
              /\ \A k \in DOMAIN monthlyData \ {key} : monthlyData'[k] = monthlyData[k]
              /\ \A f \in (DOMAIN before) \ OwnFields(data.type) :
                    monthlyData'[key][f] = before[f]]_vars

\* A Solar record added last to a bucket that already held an Electric and a
\* Gas record, whose sums are still there.
C28_Witness ==
    /\ Len(calls) = 3
    /\ calls[3].data.type = "Sunrun"
    /\ calls[1].data.type = "NationalGrid"
    /\ calls[2].data.type = "Eversource"
    /\ \E k \in DOMAIN monthlyData :
          /\ \A i \in 1..3 : calls[i].touched = {k}
          /\ monthlyData[k].ngCost = calls[1].data.cost
          /\ monthlyData[k].gasTherms = calls[2].data.therms
          /\ monthlyData[k].gasTherms > 0
          /\ monthlyData[k].sunrunProd = calls[3].data.production

\* The i-th file of batch b was fetched in this run and its processing failed:
\* an error was printed (download error, exception in the extractor) or its
\* text holds no date the extractor can locate.
FailedThisRun(b, i) ==
    /\ FileId(b, i) \in fetched
    /\ \/ FileId(b, i) \in errorLog
       \/ ~DateLocated([type |-> TypeOrder[b], doc |-> files[TypeOrder[b]][i]])

\* C29 as stated: once processFiles is over, every entry of the bill cache is a
\* record with a date, and a document whose processing failed in this run has
\* no entry.
C29_AsStated ==
    pc \in {"cleanup", "aggregate", "feed", "done", "crashed"} =>
        /\ \A id \in DOMAIN billCache : billCache[id].date # NullDate
        /\ \A b \in 1..3 : \A i \in 1..Len(files[TypeOrder[b]]) :
              FailedThisRun(b, i) => FileId(b, i) \notin DOMAIN billCache

\* The part of C29 the code keeps: a document for which an error was printed,
\* or for which the extractor returned null, has no entry.
C29_NoEntryWithoutRecord ==
    \A b \in 1..3 : \A i \in 1..Len(files[TypeOrder[b]]) :
        (/\ FileId(b, i) \in fetched
         /\ \/ FileId(b, i) \in errorLog
            \/ BillParser_parse(TypeOrder[b], files[TypeOrder[b]][i]).kind # "record")
            => FileId(b, i) \notin DOMAIN billCache

\* The ids of the files the three listings of this run hold.
ListedIds == UNION {{FileId(b, i) : i \in DOMAIN files[TypeOrder[b]]} : b \in 1..3}

\* C30: the cleanup step deletes exactly the entries whose id is not listed in
\* this run and leaves every other entry as it was; from then on (the cache is
\* saved as it stands) every key of the bill cache is the id of a listed file.
C30_CleanupKeepsListed ==
    /\ [][(pc = "cleanup" /\ pc' # "cleanup") =>
              /\ DOMAIN billCache' = DOMAIN billCache \cap ListedIds
              /\ \A id \in DOMAIN billCache' : billCache'[id] = billCache[id]
              /\ removedCount' = Cardinality(DOMAIN billCache \ ListedIds)]_vars
    /\ [](pc \in {"aggregate", "feed", "done", "crashed"} => DOMAIN billCache \subseteq ListedIds)

\* A cleanup that deleted one stale entry and kept the entries of listed files
\* of two folders.
C30_Witness ==
    /\ pc = "aggregate"
    /\ removedCount = 1
    /\ StaleId \notin DOMAIN billCache
    /\ \E i \in DOMAIN billCache : \E j \in DOMAIN billCache : i < 200 /\ j >= 200

====
